---- MODULE Spec2Model ----
(***************************************************************************)
(* A model of the sendinblue client binding: the request-body builder of   *)
(* src/transactional.rs (TransactionalBodyBuilder), the serde_json Value   *)
(* operations it relies on, and the transport call                         *)
(* Sendinblue::send_transactional_email.                                   *)
(***************************************************************************)
EXTENDS Integers, Sequences, FiniteSets, TLC

VARIABLES
  builder,   \* <<inner>>: a live TransactionalBodyBuilder(inner); <<>>: none (consumed or aborted)
  created,   \* the TransactionalBody values returned by create, in order
  panicked,  \* TRUE once an unwrap() or an index panic aborted the program
  required,  \* the string-field struct a caller merges (the tests' `required`)
  last,      \* history: the last builder operation, [op, key, arg]
  pre,       \* history: inner.params as it was before the last operation
  toCalls,   \* history: the Mailers passed to add_to_mailer, in call order
  merged,    \* history: the arguments of the add_values calls, in call order
  clients,   \* the Sendinblue (Client) value of each caller
  calls,     \* each caller's send_transactional_email call: [pc, body, response, netError, result]
  wire       \* history: the requests each caller handed to the HTTP transport, in order

transport == <<clients, calls, wire>>
vars == <<builder, created, panicked, required, last, pre, toCalls, merged, transport>>

-----------------------------------------------------------------------------
(* Bounds of the model *)

\* at most this many recipients are appended
MaxTo == 2

-----------------------------------------------------------------------------
(* serde_json::Value: Null | Bool | Number | String | Array | Object *)

JNull == [kind |-> "null"]
JBool(b) == [kind |-> "bool", b |-> b]
JNumber(n) == [kind |-> "number", n |-> n]
JString(s) == [kind |-> "string", s |-> s]
JArray(items) == [kind |-> "array", items |-> items]
JObject(map) == [kind |-> "object", map |-> map]

\* serde_json::Map::new()
EmptyMap == [k \in {} |-> JNull]

\* Map::insert / assignment through an entry: add or overwrite one key
MapInsert(map, key, value) ==
  [k \in (DOMAIN map) \cup {key} |-> IF k = key THEN value ELSE map[k]]

\* a to_value that copies scalars but does not descend into nested containers
ToValueShallow(v) ==
  CASE v.kind = "array" ->
         JArray([i \in 1..Len(v.items) |->
                   IF v.items[i].kind \in {"array", "object"} THEN JNull ELSE v.items[i]])
    [] v.kind = "object" ->
         JObject([k \in DOMAIN v.map |->
                    IF v.map[k].kind \in {"array", "object"} THEN JNull ELSE v.map[k]])
    [] OTHER -> v

\* serde_json's Serialize for Value driven by the value Serializer (to_value on a
\* Value): the value is rebuilt node by node, arrays element by element and
\* objects entry by entry.
RECURSIVE ToValue(_)
ToValue(v) ==
  CASE v.kind = "null" -> JNull
    [] v.kind = "bool" -> JBool(v.b)
    [] v.kind = "number" -> JNumber(v.n)
    [] v.kind = "string" -> JString(v.s)
    [] v.kind = "array" -> JArray([i \in 1..Len(v.items) |-> ToValue(v.items[i])])
    [] v.kind = "object" -> JObject([k \in DOMAIN v.map |-> ToValue(v.map[k])])

\* Serialize of one typed Rust element (derive(Serialize) struct, String, or a
\* type whose serialization fails, such as a map with non-string keys).
SerializeElem(x) ==
  CASE x.t = "Order" ->
         [ok |-> TRUE,
          value |-> JObject([order_number |-> JString(x.order_number),
                             address |-> JString(x.address)])]
    [] x.t = "String" -> [ok |-> TRUE, value |-> JString(x.s)]
    [] OTHER -> [ok |-> FALSE, value |-> JNull]

\* serde_json::to_value(Vec<A>): Ok(Array) when every element serializes, else Err
ToValueVec(vec) ==
  IF \A i \in 1..Len(vec) : SerializeElem(vec[i]).ok
    THEN [ok |-> TRUE, value |-> JArray([i \in 1..Len(vec) |-> SerializeElem(vec[i]).value])]
    ELSE [ok |-> FALSE, value |-> JNull]

\* an index_or_insert that does not turn Null into an object
IndexOrInsertNoCoerce(v, key) ==
  CASE v.kind = "object" ->
         [panic |-> FALSE,
          value |-> IF key \in DOMAIN v.map THEN v ELSE JObject(MapInsert(v.map, key, JNull))]
    [] OTHER -> [panic |-> TRUE, value |-> v]

\* Value's IndexMut<&str> (index_or_insert): Null becomes an empty object, an
\* object gets the key inserted as Null when absent, anything else panics.
IndexOrInsert(v, key) ==
  CASE v.kind = "null" -> [panic |-> FALSE, value |-> JObject(MapInsert(EmptyMap, key, JNull))]
    [] v.kind = "object" ->
         [panic |-> FALSE,
          value |-> IF key \in DOMAIN v.map THEN v ELSE JObject(MapInsert(v.map, key, JNull))]
    [] OTHER -> [panic |-> TRUE, value |-> v]

\* the statement  params[key] = value
IndexAssign(params, key, value) ==
  LET slot == IndexOrInsert(params, key)
  IN  IF slot.panic THEN slot
      ELSE [panic |-> FALSE, value |-> JObject(MapInsert(slot.value.map, key, value))]

-----------------------------------------------------------------------------
(* Mailer and TransactionalBody *)

Mailer(name, email) == [name |-> name, email |-> email]

\* #[derive(Default)] for Mailer: two empty strings
DefaultMailer == Mailer("", "")

\* #[derive(Default)] for TransactionalBody; Value::default() is Null
DefaultBody ==
  [sender |-> DefaultMailer, to |-> <<>>, reply_to |-> DefaultMailer,
   template_id |-> 0, subject |-> "", params |-> JNull]

-----------------------------------------------------------------------------
(* Inputs the operations are called with *)

Sender == Mailer("sender_name", "sender_email")
Receiver == Mailer("receiver_name", "receiver_email")
Mailers == {Sender, Receiver}
TemplateIds == {36}
Subjects == {"TEST SENDINBLUE"}
Keys == {"brand_name", "banner"}
Strings == {"brand_name", "banner"}

Order1 == [t |-> "Order", order_number |-> "YGORDER1", address |-> "ADDRESS1"]
Order2 == [t |-> "Order", order_number |-> "YGORDER2", address |-> "ADDRESS2"]
\* Vec<A> arguments of add_params_array: the tests' Vec<Order>, and a vector of
\* a type that does not serialize
Vecs == {<<Order1, Order2>>, <<[t |-> "Unserializable"]>>}

\* to_value of the test's Order, OrderList.orders and OneOrder
VOrder1 ==
  JObject([order_number |-> JString("YGORDER1"), address |-> JString("ADDRESS1")])
VOrder2 ==
  JObject([order_number |-> JString("YGORDER2"), address |-> JString("ADDRESS2")])
VOrders == JArray(<<VOrder1, VOrder2>>)
VOneOrder == JObject([order |-> VOrder1, count |-> JNumber(2)])

\* field values of the objects handed to add_values: one of every variant
JValues ==
  {JNull, JBool(TRUE), JNumber(2), JString("brand_name"), JString("banner"),
   VOrders, VOneOrder}

\* the JSON objects over Keys
Objects ==
  UNION {{JObject(m) : m \in [ks -> JValues]} : ks \in SUBSET Keys}

\* add_values takes any Value: objects, and values that are not objects
NonObjects == {JNull, JString("banner"), VOrders}
ValueArgs == Objects \cup NonObjects

\* the arguments the full builder run merges: the tests' objects, one field of
\* every variant, null fields, the empty object, and values that are not objects
SampleArgs ==
  {JObject(EmptyMap),
   JObject([brand_name |-> JString("brand_name"), banner |-> JString("banner")]),
   JObject([brand_name |-> JNull, banner |-> VOrders]),
   JObject([banner |-> VOneOrder]),
   JObject([brand_name |-> JBool(TRUE), banner |-> JNumber(2)]),
   JObject([brand_name |-> JNull])} \cup NonObjects

-----------------------------------------------------------------------------
(* TransactionalBodyBuilder: each operation maps the inner body to          *)
(* [panic, inner]                                                           *)

Ok(inner) == [panic |-> FALSE, inner |-> inner]

set_sender(inner, mailer) == Ok([inner EXCEPT !.sender = mailer])

\* an add_to_mailer that skips a Mailer already in the list
add_to_mailer_dedup(inner, mailer) ==
  IF \E i \in 1..Len(inner.to) : inner.to[i] = mailer
    THEN [panic |-> FALSE, inner |-> inner]
    ELSE [panic |-> FALSE, inner |-> [inner EXCEPT !.to = Append(@, mailer)]]

add_to_mailer(inner, mailer) == Ok([inner EXCEPT !.to = Append(@, mailer)])

reply_to(inner, mailer) == Ok([inner EXCEPT !.reply_to = mailer])

template_id(inner, id) == Ok([inner EXCEPT !.template_id = id])

subject(inner, s) == Ok([inner EXCEPT !.subject = s])

add_params(inner, key, value) ==
  LET r == IndexAssign(inner.params, key, JString(value))
  IN  [panic |-> r.panic, inner |-> [inner EXCEPT !.params = r.value]]

\* an add_params_array that assigns the array to params itself, not to params[key]
add_params_array_as_params(inner, key, vec) ==
  LET v == ToValueVec(vec)
  IN  IF ~v.ok THEN [panic |-> TRUE, inner |-> inner]
      ELSE [panic |-> FALSE, inner |-> [inner EXCEPT !.params = v.value]]

add_params_array(inner, key, vec) ==
  LET v == ToValueVec(vec)
  IN  IF ~v.ok THEN [panic |-> TRUE, inner |-> inner]
      ELSE LET r == IndexAssign(inner.params, key, v.value)
           IN  [panic |-> r.panic, inner |-> [inner EXCEPT !.params = r.value]]

\* a match whose Null arm stores the null instead of skipping the entry
MergeEntryStoresNull(params, key, value) ==
  IndexAssign(params, key, ToValue(value))

\* a match that skips string entries as it skips nulls
MergeEntrySkipsStrings(params, key, value) ==
  IF value.kind \in {"null", "string"}
    THEN [panic |-> FALSE, value |-> params]
    ELSE IndexAssign(params, key, ToValue(value))

\* one iteration of add_values' loop: the match on the entry's value
MergeEntry(params, key, value) ==
  CASE value.kind = "null" -> [panic |-> FALSE, value |-> params]
    [] value.kind = "bool" -> IndexAssign(params, key, JBool(value.b))
    [] value.kind = "number" -> IndexAssign(params, key, JNumber(value.n))
    [] value.kind = "string" -> IndexAssign(params, key, JString(value.s))
    [] value.kind = "array" -> IndexAssign(params, key, ToValue(JArray(value.items)))
    [] value.kind = "object" -> IndexAssign(params, key, ToValue(JObject(value.map)))

\* the for loop over the argument's entries; a panic ends it
RECURSIVE MergeLoop(_, _, _)
MergeLoop(params, map, keys) ==
  IF keys = {} THEN [panic |-> FALSE, value |-> params]
  ELSE LET key == CHOOSE k \in keys : TRUE
           r == MergeEntry(params, key, map[key])
       IN  IF r.panic THEN r ELSE MergeLoop(r.value, map, keys \ {key})

\* an add_values that replaces params by the argument's non-null entries
add_values_replace_all(inner, values) ==
  IF values.kind = "object"
    THEN LET r == MergeLoop(JNull, values.map, DOMAIN values.map)
         IN  [panic |-> r.panic, inner |-> [inner EXCEPT !.params = r.value]]
    ELSE [panic |-> FALSE, inner |-> inner]

add_values(inner, values) ==
  IF values.kind = "object"
    THEN LET r == MergeLoop(inner.params, values.map, DOMAIN values.map)
         IN  [panic |-> r.panic, inner |-> [inner EXCEPT !.params = r.value]]
    ELSE Ok(inner)

create(inner) == inner

\* TransactionalBody::builder()
NewBuilder == <<DefaultBody>>

-----------------------------------------------------------------------------
(* The builder's operations as actions *)

Live == Len(builder) = 1 /\ ~panicked

\* the operation returns Self(inner), or the panic unwinds and the builder is gone
Return(r) ==
  /\ builder' = IF r.panic THEN <<>> ELSE <<r.inner>>
  /\ panicked' = r.panic
  /\ UNCHANGED <<created, required, transport>>

Builder ==
  /\ builder = <<>>
  /\ ~panicked
  /\ builder' = NewBuilder
  /\ UNCHANGED <<created, panicked, required, transport>>

SetSender(mailer) == Live /\ Return(set_sender(builder[1], mailer))

AddToMailer(mailer) ==
  /\ Live
  /\ Len(builder[1].to) < MaxTo
  /\ Return(add_to_mailer(builder[1], mailer))

ReplyTo(mailer) == Live /\ Return(reply_to(builder[1], mailer))

TemplateId(id) == Live /\ Return(template_id(builder[1], id))

Subject(s) == Live /\ Return(subject(builder[1], s))

AddParams(key, value) == Live /\ Return(add_params(builder[1], key, value))

AddParamsArray(key, vec) == Live /\ Return(add_params_array(builder[1], key, vec))

AddValues(values) == Live /\ Return(add_values(builder[1], values))

\* create(self) consumes the builder and returns the body
Create ==
  /\ Live
  /\ created' = Append(created, create(builder[1]))
  /\ builder' = <<>>
  /\ UNCHANGED <<panicked, required, transport>>

-----------------------------------------------------------------------------
(* Client (the Sendinblue type) *)

BASE_URL == "https://api.sendinblue.com/v3"

\* Client::new
ClientNew(server_url, api_key) == [server_url |-> server_url, api_key |-> api_key]

\* Client::production
ClientProduction(api_key) == [server_url |-> BASE_URL, api_key |-> api_key]

Callers == {1, 2}
ApiKeys == {"key-1", "key-2"}
ServerUrls == {"http://localhost:8080"}
Clients ==
  {ClientNew(u, k) : u \in ServerUrls, k \in ApiKeys}
    \cup {ClientProduction(k) : k \in ApiKeys}

-----------------------------------------------------------------------------
(* Sendinblue::send_transactional_email *)

\* the body of the tests: sender, one recipient, reply-to, template 36, subject
\* and the merged `required` object
TestBody ==
  LET b1 == set_sender(NewBuilder[1], Sender).inner
      b2 == add_to_mailer(b1, Receiver).inner
      b3 == reply_to(b2, Sender).inner
      b4 == template_id(b3, 36).inner
      b5 == subject(b4, "TEST SENDINBLUE").inner
      b6 == add_values(b5,
              JObject([brand_name |-> JString("brand_name"),
                       banner |-> JString("banner")])).inner
  IN  create(b6)

\* TransactionalBody::builder().create()
EmptyBody == create(NewBuilder[1])

SendBodies == {TestBody, EmptyBody}

\* derive(Serialize) of Mailer
SerializeMailer(m) == JObject([name |-> JString(m.name), email |-> JString(m.email)])

\* derive(Serialize) of TransactionalBody with rename_all = "camelCase"
SerializeBody(b) ==
  JObject([sender |-> SerializeMailer(b.sender),
           to |-> JArray([i \in 1..Len(b.to) |-> SerializeMailer(b.to[i])]),
           replyTo |-> SerializeMailer(b.reply_to),
           templateId |-> JNumber(b.template_id),
           subject |-> JString(b.subject),
           params |-> ToValue(b.params)])

\* a request that carries the client's key in an api-key header
BuildRequestWithKey(client, b) ==
  [method |-> "POST",
   url |-> client.server_url \o "/smtp/email",
   headers |-> {<<"content-type", "application/json">>, <<"api-key", client.api_key>>},
   json |-> SerializeBody(b)]

\* format!("{}/smtp/email", self.server_url), then
\* reqwest::Client::new().post(&url).json(&body)
BuildRequest(client, b) ==
  [method |-> "POST",
   url |-> client.server_url \o "/smtp/email",
   headers |-> {<<"content-type", "application/json">>},
   json |-> SerializeBody(b)]

\* derive(Deserialize) of TransactionalResp with rename_all = "camelCase", as
\* Response::json applies it to the response body: a JSON object with a string
\* under "messageId" (other keys are ignored)
DeserializeResp(text) ==
  IF /\ text.kind = "object"
     /\ "messageId" \in DOMAIN text.map
     /\ text.map["messageId"].kind = "string"
    THEN [ok |-> TRUE, resp |-> [message_id |-> text.map["messageId"].s]]
    ELSE [ok |-> FALSE, resp |-> [message_id |-> ""]]

\* what the server may answer
Statuses == {201, 400}
NotJson == [kind |-> "text"]
RespBodies ==
  {JObject([messageId |-> JString("<2024.1@smtp-relay>")]),
   JObject([code |-> JString("unauthorized"), message |-> JString("Key not found")]),
   NotJson}

\* Result<TransactionalResp, reqwest::Error>
ResultOk(resp) == [ok |-> TRUE, resp |-> resp, err |-> ""]
ResultErr(kind) == [ok |-> FALSE, resp |-> [message_id |-> ""], err |-> kind]

IdleCall ==
  [pc |-> "idle", body |-> <<>>, response |-> <<>>, netError |-> FALSE, result |-> <<>>]

\* the call up to the first await: the debug! trace of the body (no state), the
\* url, the request, send()
SendTransactionalEmail(c, b) ==
  /\ calls[c].pc = "idle"
  /\ wire' = [wire EXCEPT ![c] = Append(@, BuildRequest(clients[c], b))]
  /\ calls' = [calls EXCEPT ![c] = [@ EXCEPT !.pc = "send", !.body = <<b>>]]
  /\ UNCHANGED clients

\* a failed send() that is retried: the request goes out again
SendFailsRetries(c) ==
  /\ calls[c].pc = "send"
  /\ Len(wire[c]) < 3
  /\ wire' = [wire EXCEPT ![c] = Append(@, wire[c][1])]
  /\ UNCHANGED <<clients, calls>>

\* send().await is Err (the request did not get a response): `?` returns it
SendFails(c) ==
  /\ calls[c].pc = "send"
  /\ calls' = [calls EXCEPT ![c] =
       [@ EXCEPT !.pc = "done", !.netError = TRUE, !.result = <<ResultErr("request")>>]]
  /\ UNCHANGED <<clients, wire>>

\* send().await is Ok(response), whatever the status: json() is called on it
SendReturns(c, status, text) ==
  /\ calls[c].pc = "send"
  /\ calls' = [calls EXCEPT ![c] =
       [@ EXCEPT !.pc = "json", !.response = <<[status |-> status, body |-> text]>>]]
  /\ UNCHANGED <<clients, wire>>

\* json().await: reading the body fails
JsonReadFails(c) ==
  /\ calls[c].pc = "json"
  /\ calls' = [calls EXCEPT ![c] =
       [@ EXCEPT !.pc = "done", !.netError = TRUE, !.result = <<ResultErr("body")>>]]
  /\ UNCHANGED <<clients, wire>>

\* json().await: the body is read and deserialized
JsonReturns(c) ==
  /\ calls[c].pc = "json"
  /\ LET d == DeserializeResp(calls[c].response[1].body)
     IN  calls' = [calls EXCEPT ![c] =
           [@ EXCEPT !.pc = "done",
                     !.result = IF d.ok THEN <<ResultOk(d.resp)>>
                                        ELSE <<ResultErr("decode")>>]]
  /\ UNCHANGED <<clients, wire>>

-----------------------------------------------------------------------------
(* History *)

Op(op, key, arg) == [op |-> op, key |-> key, arg |-> arg]

\* record the operation's name only
NoteOp(op) == last' = Op(op, "", JNull) /\ UNCHANGED <<pre, merged>>

\* record the operation, its arguments and the params it started from
NoteCall(op, key, arg) ==
  /\ last' = Op(op, key, arg)
  /\ pre' = builder[1].params
  /\ UNCHANGED merged

-----------------------------------------------------------------------------
(* Spec: every builder operation, from TransactionalBody::builder() to create *)

\* no call is under way; the client is the production one
IdleTransport ==
  /\ clients = [c \in Callers |-> ClientProduction("key-1")]
  /\ calls = [c \in Callers |-> IdleCall]
  /\ wire = [c \in Callers |-> <<>>]

Init ==
  /\ builder = NewBuilder
  /\ created = <<>>
  /\ panicked = FALSE
  /\ required = EmptyMap
  /\ last = Op("builder", "", JNull)
  /\ pre = JNull
  /\ toCalls = <<>>
  /\ merged = <<>>
  /\ IdleTransport

Next ==
  \/ \E m \in Mailers : SetSender(m) /\ NoteOp("set_sender") /\ UNCHANGED toCalls
  \/ \E m \in Mailers :
       AddToMailer(m) /\ NoteOp("add_to_mailer") /\ toCalls' = Append(toCalls, m)
  \/ \E m \in Mailers : ReplyTo(m) /\ NoteOp("reply_to") /\ UNCHANGED toCalls
  \/ \E id \in TemplateIds : TemplateId(id) /\ NoteOp("template_id") /\ UNCHANGED toCalls
  \/ \E s \in Subjects : Subject(s) /\ NoteOp("subject") /\ UNCHANGED toCalls
  \/ \E k \in Keys, s \in Strings :
       AddParams(k, s) /\ NoteOp("add_params") /\ UNCHANGED toCalls
  \/ \E k \in Keys, vec \in Vecs :
       AddParamsArray(k, vec) /\ NoteOp("add_params_array") /\ UNCHANGED toCalls
  \/ \E v \in SampleArgs : AddValues(v) /\ NoteOp("add_values") /\ UNCHANGED toCalls
  \/ Create /\ NoteOp("create") /\ UNCHANGED toCalls

Spec == Init /\ [][Next]_vars

-----------------------------------------------------------------------------
(* SpecParams: the three operations that write params, with every object    *)
(* over Keys as add_values' argument, recording each call and the params it *)
(* started from                                                             *)

NextParams ==
  \/ \E k \in Keys, s \in Strings :
       AddParams(k, s) /\ NoteCall("add_params", k, JString(s)) /\ UNCHANGED toCalls
  \/ \E k \in Keys, vec \in Vecs :
       AddParamsArray(k, vec) /\ NoteCall("add_params_array", k, JNull)
         /\ UNCHANGED toCalls
  \/ \E v \in ValueArgs :
       AddValues(v) /\ NoteCall("add_values", "", v) /\ UNCHANGED toCalls

SpecParams == Init /\ [][NextParams]_vars

-----------------------------------------------------------------------------
(* SpecMerge: two add_values calls in a row on a fresh builder *)

NextMerge ==
  \E v \in Objects :
    /\ Len(merged) < 2
    /\ AddValues(v)
    /\ last' = Op("add_values", "", v)
    /\ pre' = builder[1].params
    /\ merged' = Append(merged, v)
    /\ UNCHANGED toCalls

SpecMerge == Init /\ [][NextMerge]_vars

-----------------------------------------------------------------------------
(* SpecEq: test_transactional_body_with_add_values. A struct of string      *)
(* fields goes into one body field by field with add_params, in any order,  *)
(* and into a second body with one add_values call.                         *)

RequiredFields == {"brand_name", "banner", "homepage_link"}

\* the structs: every set of fields, every string in each field
Structs == UNION {[fs -> Strings] : fs \in SUBSET RequiredFields}

\* serde_json::to_value of a derive(Serialize) struct of String fields
ToValueStruct(st) == JObject([f \in DOMAIN st |-> JString(st[f])])

\* Map::keys of a params value (none while it is Null)
KeysOf(v) == IF v.kind = "object" THEN DOMAIN v.map ELSE {}

InitEq ==
  /\ builder = NewBuilder
  /\ created = <<>>
  /\ panicked = FALSE
  /\ required \in Structs
  /\ last = Op("builder", "", JNull)
  /\ pre = JNull
  /\ toCalls = <<>>
  /\ merged = <<>>
  /\ IdleTransport

NextEq ==
  \/ \E f \in DOMAIN required :
       /\ created = <<>>
       /\ Live
       /\ f \notin KeysOf(builder[1].params)
       /\ AddParams(f, required[f])
       /\ NoteCall("add_params", f, JString(required[f]))
       /\ UNCHANGED toCalls
  \/ /\ Live
     /\ \/ created = <<>> /\ KeysOf(builder[1].params) = DOMAIN required
        \/ Len(created) = 1 /\ last.op = "add_values"
     /\ Create
     /\ NoteOp("create")
     /\ UNCHANGED toCalls
  \/ /\ Len(created) = 1
     /\ Builder
     /\ NoteOp("builder")
     /\ UNCHANGED toCalls
  \/ /\ Len(created) = 1
     /\ Live
     /\ last.op = "builder"
     /\ AddValues(ToValueStruct(required))
     /\ NoteCall("add_values", "", ToValueStruct(required))
     /\ UNCHANGED toCalls

SpecEq == InitEq /\ [][NextEq]_vars

-----------------------------------------------------------------------------
(* SpecSend: each caller holds a Client and sends one finalized body *)

InitSend ==
  /\ builder = <<>>
  /\ created = <<>>
  /\ panicked = FALSE
  /\ required = EmptyMap
  /\ last = Op("create", "", JNull)
  /\ pre = JNull
  /\ toCalls = <<>>
  /\ merged = <<>>
  /\ clients \in [Callers -> Clients]
  /\ calls = [c \in Callers |-> IdleCall]
  /\ wire = [c \in Callers |-> <<>>]

builderVars == <<builder, created, panicked, required, last, pre, toCalls, merged>>

NextSend ==
  \/ \E c \in Callers, b \in SendBodies :
       SendTransactionalEmail(c, b) /\ UNCHANGED builderVars
  \/ \E c \in Callers : SendFails(c) /\ UNCHANGED builderVars
  \/ \E c \in Callers, status \in Statuses, text \in RespBodies :
       SendReturns(c, status, text) /\ UNCHANGED builderVars
  \/ \E c \in Callers : JsonReadFails(c) /\ UNCHANGED builderVars
  \/ \E c \in Callers : JsonReturns(c) /\ UNCHANGED builderVars

SpecSend == InitSend /\ [][NextSend]_vars

-----------------------------------------------------------------------------
(* Properties *)

\* Map::get on a params value: <<value>> when the key is there, <<>> otherwise
Get(v, key) == IF key \in KeysOf(v) THEN <<v.map[key]>> ELSE <<>>

\* the keys of an object whose value is not null
NonNullKeys(obj) == {k \in DOMAIN obj.map : obj.map[k] # JNull}

\* an add_values call with an object argument has just returned
MergedObject == last.op = "add_values" /\ last.arg.kind = "object" /\ Live

\* C1: a struct of string fields inserted field by field with add_params, in any
\* order, gives the same params as one add_values call on the struct's JSON
\* object, and that params holds exactly the struct's fields (SpecEq).
FieldwiseEqualsMerge ==
  Len(created) = 2 =>
    /\ created[1].params = created[2].params
    /\ KeysOf(created[2].params) = DOMAIN required
    /\ \A f \in DOMAIN required : Get(created[2].params, f) = <<JString(required[f])>>

FieldwiseEqualsMergeWitness ==
  /\ Len(created) = 2
  /\ required = [brand_name |-> "brand_name", banner |-> "banner"]
  /\ created[1].params =
       JObject([brand_name |-> JString("brand_name"), banner |-> JString("banner")])
  /\ created[2].params = created[1].params

\* C2 as claimed: after add_values with a null-valued field, params does not
\* contain that field's key at all, whatever the builder held before (SpecParams).
NullFieldKeyAbsent ==
  MergedObject =>
    \A k \in DOMAIN last.arg.map :
      last.arg.map[k] = JNull => k \notin KeysOf(builder[1].params)

\* C2 as amended: after add_values with a null-valued field, the key is never
\* present with a null value and the call leaves it as it was: absent when it was
\* absent before the call, and holding its earlier value when an earlier
\* operation had set it (SpecParams).
NullFieldLeftAsBefore ==
  MergedObject =>
    \A k \in DOMAIN last.arg.map :
      last.arg.map[k] = JNull =>
        /\ Get(builder[1].params, k) # <<JNull>>
        /\ Get(builder[1].params, k) = Get(pre, k)

NullFieldLeftAsBeforeWitness ==
  /\ MergedObject
  /\ last.arg = JObject([brand_name |-> JNull, banner |-> JString("banner")])
  /\ pre = JNull
  /\ builder[1].params = JObject([banner |-> JString("banner")])

\* C3 as claimed: add_values(A) then add_values(B) on a fresh builder gives a
\* params whose keys are the union of the keys of A and B, with B's value under
\* every key of B and A's value under every key of A alone (SpecMerge).
MergeUnionOfKeys ==
  (Len(merged) = 2 /\ Live) =>
    LET A == merged[1].map
        B == merged[2].map
        params == builder[1].params
    IN  /\ KeysOf(params) = (DOMAIN A) \cup (DOMAIN B)
        /\ \A k \in DOMAIN B : Get(params, k) = <<B[k]>>
        /\ \A k \in (DOMAIN A) \ (DOMAIN B) : Get(params, k) = <<A[k]>>

\* C3 as amended: add_values(A) then add_values(B) on a fresh builder gives a
\* params whose keys are the union of the keys of A and B that hold a non-null
\* value; every key with a non-null value in B holds B's value, and every key
\* with a non-null value in A that B lacks or holds as null keeps A's value
\* (SpecMerge).
MergeUnionOfNonNullKeys ==
  (Len(merged) = 2 /\ Live) =>
    LET A == merged[1]
        B == merged[2]
        params == builder[1].params
    IN  /\ KeysOf(params) = NonNullKeys(A) \cup NonNullKeys(B)
        /\ \A k \in NonNullKeys(B) : Get(params, k) = <<B.map[k]>>
        /\ \A k \in NonNullKeys(A) \ NonNullKeys(B) : Get(params, k) = <<A.map[k]>>

MergeUnionOfNonNullKeysWitness ==
  /\ Len(merged) = 2
  /\ Live
  /\ merged[1] = JObject([brand_name |-> JString("brand_name"), banner |-> JString("banner")])
  /\ merged[2] = JObject([banner |-> VOrders])
  /\ builder[1].params = JObject([brand_name |-> JString("brand_name"), banner |-> VOrders])

\* C4: in every builder state and in every body returned by create, params is
\* the Null default or a JSON object, never an array or another scalar; it is
\* Null in a fresh builder, an object once add_params or add_params_array has
\* inserted a key, and an object only through an insertion: it then holds at
\* least one key (Spec).
ParamsNullOrObject ==
  /\ \A i \in 1..Len(builder) :
       /\ builder[i].params.kind \in {"null", "object"}
       /\ builder[i].params.kind = "object" => KeysOf(builder[i].params) # {}
       /\ last.op = "builder" => builder[i].params = JNull
       /\ last.op \in {"add_params", "add_params_array"} =>
            builder[i].params.kind = "object"
  /\ \A i \in 1..Len(created) :
       /\ created[i].params.kind \in {"null", "object"}
       /\ created[i].params.kind = "object" => KeysOf(created[i].params) # {}

ParamsNullOrObjectWitness ==
  /\ Len(created) = 1
  /\ created[1].params.kind = "object"
  /\ "banner" \in KeysOf(created[1].params)
  /\ Get(created[1].params, "banner") = <<VOrders>>

\* C5: add_values never panics: after any sequence of add_params,
\* add_params_array, add_values and the setters, the call returns a builder; the
\* only panic of the builder is add_params_array's failed serialization (Spec).
AddValuesNeverPanics ==
  /\ last.op = "add_values" => (~panicked /\ Len(builder) = 1)
  /\ panicked => last.op = "add_params_array"

AddValuesNeverPanicsWitness ==
  /\ last.op = "add_values"
  /\ Live
  /\ builder[1].params =
       JObject([brand_name |-> JString("banner"), banner |-> VOneOrder])
  /\ builder[1].to = <<Receiver>>

\* C6: a call of send_transactional_email hands exactly one request to the
\* transport: a POST to <server_url>/smtp/email with the serialized body; no
\* second request follows a failure, and the call ends with the parsed response
\* or an error (SpecSend).
OneExchangePerCall ==
  \A c \in Callers :
    /\ Len(wire[c]) <= 1
    /\ calls[c].pc # "idle" =>
         /\ Len(wire[c]) = 1
         /\ wire[c][1].method = "POST"
         /\ wire[c][1].url = clients[c].server_url \o "/smtp/email"
         /\ wire[c][1].json = SerializeBody(calls[c].body[1])
    /\ calls[c].pc = "done" =>
         /\ Len(calls[c].result) = 1
         /\ calls[c].result[1].ok =>
              /\ Len(calls[c].response) = 1
              /\ DeserializeResp(calls[c].response[1].body).ok
              /\ calls[c].result[1].resp = DeserializeResp(calls[c].response[1].body).resp

OneExchangePerCallWitness ==
  \E c \in Callers :
    /\ calls[c].pc = "done"
    /\ calls[c].netError
    /\ ~calls[c].result[1].ok
    /\ Len(wire[c]) = 1
    /\ wire[c][1].url = "https://api.sendinblue.com/v3/smtp/email"

\* C7: whenever the exchange fails at the network level, returns a failing HTTP
\* status, or returns a body that does not deserialize into a message-id record,
\* the call returns an error and never a TransactionalResp (SpecSend).
FailurePropagatesAsError ==
  \A c \in Callers :
    (/\ calls[c].pc = "done"
     /\ \/ calls[c].netError
        \/ \E i \in 1..Len(calls[c].response) :
             \/ calls[c].response[i].status >= 400
             \/ ~DeserializeResp(calls[c].response[i].body).ok)
      => ~calls[c].result[1].ok

\* C8: the recipient list of the builder and of the finalized body is the
\* sequence of Mailers passed to add_to_mailer, in call order, duplicates kept;
\* no other operation changes it (Spec).
RecipientsAreCallsInOrder ==
  /\ \A i \in 1..Len(builder) : builder[i].to = toCalls
  /\ \A i \in 1..Len(created) : created[i].to = toCalls

RecipientsAreCallsInOrderWitness ==
  /\ Len(created) = 1
  /\ created[1].to = <<Receiver, Receiver>>
  /\ created[1].sender = Sender
  /\ created[1].params.kind = "object"

\* C9: every key of add_values' argument whose value is an array or an object
\* holds, in the resulting params, a value equal to the input value, nested
\* records included (SpecParams).
NestedValuesStoredUnchanged ==
  MergedObject =>
    \A k \in DOMAIN last.arg.map :
      last.arg.map[k].kind \in {"array", "object"} =>
        Get(builder[1].params, k) = <<last.arg.map[k]>>

NestedValuesStoredUnchangedWitness ==
  /\ MergedObject
  /\ last.arg = JObject([brand_name |-> VOneOrder, banner |-> VOrders])
  /\ pre = JObject([brand_name |-> JString("brand_name")])
  /\ builder[1].params = JObject([brand_name |-> VOneOrder, banner |-> VOrders])

\* C10: the request depends only on server_url and the body: two callers whose
\* clients have the same server_url and who send equal bodies hand identical
\* requests to the transport, whatever their api_key (SpecSend).
ApiKeyDoesNotInfluenceRequest ==
  \A c1 \in Callers, c2 \in Callers :
    (/\ calls[c1].pc # "idle"
     /\ calls[c2].pc # "idle"
     /\ clients[c1].server_url = clients[c2].server_url
     /\ calls[c1].body = calls[c2].body)
      => wire[c1] = wire[c2]

ApiKeyDoesNotInfluenceRequestWitness ==
  \E c1 \in Callers, c2 \in Callers :
    /\ clients[c1].api_key # clients[c2].api_key
    /\ clients[c1].server_url = clients[c2].server_url
    /\ calls[c1].pc = "done"
    /\ calls[c2].pc = "done"
    /\ calls[c1].body = <<TestBody>>
    /\ calls[c1].body = calls[c2].body
    /\ wire[c1] = wire[c2]

====
